---- MODULE Spec2Model ----
(***************************************************************************)
(* Chiller payback calculator (streamlit_app.py): the energy-method        *)
(* selector, the three annual-energy estimators, the option evaluator and  *)
(* the payback derivation, with Python's float arithmetic reproduced bit   *)
(* for bit.                                                                *)
(***************************************************************************)
EXTENDS Integers, Sequences, FiniteSets

\* ---------------------------------------------------------------------
\* Python float (IEEE 754 binary64, round to nearest, ties to even).
\* A float is [k |-> "float", sgn, man, exp] with value sgn * M * 2^exp,
\* where M is the integer whose little-endian limbs (radix Base) are man,
\* 2^52 <= M < 2^53; zero is sgn = 0.  Magnitudes stay far inside the
\* normal range, so subnormals, infinities and NaN are not represented.
\* ---------------------------------------------------------------------
Base == 2^14
LimbBits == 14
Precision == 53
ManLimbs == 4

Get(a, i) == IF i >= 1 /\ i <= Len(a) THEN a[i] ELSE 0

Min(x, y) == IF x <= y THEN x ELSE y

Max(x, y) == IF x >= y THEN x ELSE y

\* TLC keeps [i \in 1..n |-> e] unevaluated; Strict makes it a tuple once.
Strict(f) == SubSeq(f, 1, Len(f))

\* Limbs of the number whose radix-Base columns from the i-th on are cols
\* (any integers, the total not negative), with carry c into column i.
RECURSIVE Carry(_, _, _)
Carry(cols, i, c) ==
    IF i > Len(cols)
    THEN IF c = 0 THEN <<>> ELSE <<c % Base>> \o Carry(cols, i, c \div Base)
    ELSE <<(cols[i] + c) % Base>> \o Carry(cols, i + 1, (cols[i] + c) \div Base)

BigAdd(a, b) == Carry(Strict([i \in 1..Max(Len(a), Len(b)) |-> Get(a, i) + Get(b, i)]), 1, 0)

\* a - b for a >= b.
BigSub(a, b) == Carry(Strict([i \in 1..Max(Len(a), Len(b)) |-> Get(a, i) - Get(b, i)]), 1, 0)

\* a * b for a, b of ManLimbs limbs.
BigMul(a, b) ==
    Carry(<<a[1] * b[1],
            a[1] * b[2] + a[2] * b[1],
            a[1] * b[3] + a[2] * b[2] + a[3] * b[1],
            a[1] * b[4] + a[2] * b[3] + a[3] * b[2] + a[4] * b[1],
            a[2] * b[4] + a[3] * b[3] + a[4] * b[2],
            a[3] * b[4] + a[4] * b[3],
            a[4] * b[4]>>, 1, 0)

\* a * d for one limb d.
MulSmall(a, d) == Carry(Strict([i \in 1..Len(a) |-> a[i] * d]), 1, 0)

RECURSIVE CmpAt(_, _, _)
CmpAt(a, b, i) ==
    IF i = 0 THEN 0
    ELSE IF Get(a, i) > Get(b, i) THEN 1
    ELSE IF Get(a, i) < Get(b, i) THEN -1
    ELSE CmpAt(a, b, i - 1)

\* -1, 0 or 1 as a < b, a = b, a > b.
BigCmp(a, b) == CmpAt(a, b, Max(Len(a), Len(b)))

RECURSIVE TopIdx(_, _)
TopIdx(a, i) == IF i = 0 THEN 0 ELSE IF a[i] # 0 THEN i ELSE TopIdx(a, i - 1)

BitsOf(x) == Cardinality({n \in 0..(LimbBits - 1) : 2^n <= x})

BitsTo(a, t) == IF t = 0 THEN 0 ELSE LimbBits * (t - 1) + BitsOf(a[t])

BitLen(a) == BitsTo(a, TopIdx(a, Len(a)))

\* a with its k low limbs and then r low bits dropped.
DropLow(a, k, r) ==
    Strict([i \in 1..Max(Len(a) - k, 0) |->
        (a[i + k] \div 2^r) + (Get(a, i + k + 1) % 2^r) * 2^(LimbBits - r)])

ShiftR(a, s) == DropLow(a, s \div LimbBits, s % LimbBits)

\* a with k zero limbs and then r zero bits put below it.
PutLow(a, k, r) ==
    Strict([i \in 1..(Len(a) + k + 1) |->
        (Get(a, i - k) % 2^(LimbBits - r)) * 2^r + (Get(a, i - k - 1) \div 2^(LimbBits - r))])

ShiftL(a, s) == PutLow(a, s \div LimbBits, s % LimbBits)

\* Some bit of a below bit s is 1.
LowNonzero(a, s) ==
    \/ \E i \in 1..Len(a) : i <= s \div LimbBits /\ a[i] # 0
    \/ Get(a, s \div LimbBits + 1) % 2^(s % LimbBits) # 0

Bit(a, j) == (Get(a, j \div LimbBits + 1) \div 2^(j % LimbBits)) % 2

Fit(a) == <<Get(a, 1), Get(a, 2), Get(a, 3), Get(a, 4)>>

Pack(sgn, m, e) == [k |-> "float", sgn |-> sgn, man |-> Fit(m), exp |-> e]

Zero == [k |-> "float", sgn |-> 0, man |-> <<0, 0, 0, 0>>, exp |-> 0]

ZeroDivisionError == [k |-> "ZeroDivisionError"]

None == [k |-> "None"]

IsFloat(x) == x.k = "float"

\* q of Precision bits, just incremented: one bit longer when it overflowed.
Renorm(sgn, q, e) ==
    IF BitLen(q) > Precision THEN Pack(sgn, ShiftR(q, 1), e + 1) ELSE Pack(sgn, q, e)

\* sgn * (q + h) * 2^e to nearest, ties to even: h = 1/2 exactly when half
\* and not rest, h > 1/2 when half and rest, h < 1/2 when not half.
Nearest(sgn, q, e, half, rest) ==
    IF half /\ (rest \/ q[1] % 2 = 1) THEN Renorm(sgn, BigAdd(q, <<1>>), e) ELSE Pack(sgn, q, e)

\* Round for M of n bits.
RoundBits(sgn, M, e, sticky, n) ==
    IF n = 0 THEN Zero
    ELSE IF n <= Precision THEN Pack(sgn, ShiftL(M, Precision - n), e - (Precision - n))
    ELSE Nearest(sgn, ShiftR(M, n - Precision), e + (n - Precision),
                 Bit(M, n - Precision - 1) = 1,
                 sticky \/ LowNonzero(M, n - Precision - 1))

\* The float nearest to sgn * (M + f) * 2^e, 0 <= f < 1, f # 0 iff sticky.
Round(sgn, M, e, sticky) == RoundBits(sgn, M, e, sticky, BitLen(M))

Abs(n) == IF n < 0 THEN -n ELSE n

Sign(n) == IF n < 0 THEN -1 ELSE IF n = 0 THEN 0 ELSE 1

FromInt(n) == Round(Sign(n), Carry(<<Abs(n)>>, 1, 0), 0, FALSE)

FNeg(a) == IF IsFloat(a) THEN [a EXCEPT !.sgn = -a.sgn] ELSE a

FAbs(a) == IF IsFloat(a) THEN [a EXCEPT !.sgn = Abs(a.sgn)] ELSE a

FMul(a, b) ==
    IF ~IsFloat(a) THEN a
    ELSE IF ~IsFloat(b) THEN b
    ELSE IF a.sgn = 0 \/ b.sgn = 0 THEN Zero
    ELSE Round(a.sgn * b.sgn, BigMul(a.man, b.man), a.exp + b.exp, FALSE)

\* <<digit, remainder>> of R / D given q >= digit and p = q * D.
RECURSIVE Correct(_, _, _, _)
Correct(R, D, q, p) ==
    IF BigCmp(p, R) > 0 THEN Correct(R, D, q - 1, BigSub(p, D))
    ELSE <<q, Fit(BigSub(R, p))>>

Estimated(R, D, q) == Correct(R, D, q, MulSmall(D, q))

\* One radix-Base digit of R / D and the remainder (R < D * Base, D of
\* ManLimbs limbs with top limb >= Base / 2): the estimate from the leading
\* limbs is at most 2 too large.
QuotDigit(R, D) ==
    Estimated(R, D, Min((R[ManLimbs + 1] * Base + R[ManLimbs]) \div D[ManLimbs], Base - 1))

\* Long division: q holds the digits found so far (little-endian), R the
\* remainder; d is the next <<digit, remainder>>.
RECURSIVE DivDigits(_, _, _, _, _)
DivStep(sgn, e, D, q, d) == DivDigits(sgn, e, D, <<d[1]>> \o q, d[2])

DivDigits(sgn, e, D, q, R) ==
    IF Len(q) = ManLimbs + 1 THEN Round(sgn, q, e, R # <<0, 0, 0, 0>>)
    ELSE DivStep(sgn, e, D, q, QuotDigit(<<0>> \o R, D))

\* N / D for N, D of ManLimbs * LimbBits bits: the first digit is 0 or 1.
DivMan(sgn, e, N, D) ==
    IF BigCmp(N, D) >= 0 THEN DivDigits(sgn, e, D, <<1>>, Fit(BigSub(N, D)))
    ELSE DivDigits(sgn, e, D, <<0>>, N)

FDiv(a, b) ==
    IF ~IsFloat(a) THEN a
    ELSE IF ~IsFloat(b) THEN b
    ELSE IF b.sgn = 0 THEN ZeroDivisionError
    ELSE IF a.sgn = 0 THEN Zero
    ELSE DivMan(a.sgn * b.sgn, a.exp - b.exp - ManLimbs * LimbBits,
                Fit(ShiftL(a.man, ManLimbs * LimbBits - Precision)),
                Fit(ShiftL(b.man, ManLimbs * LimbBits - Precision)))

\* |a| compared with |b| for nonzero floats: -1, 0 or 1.
MagCmp(a, b) ==
    IF a.exp > b.exp THEN 1
    ELSE IF a.exp < b.exp THEN -1
    ELSE BigCmp(a.man, b.man)

\* sa * A * 2^e + sb * B * 2^e, where c compares A with B.
AddMan(sa, A, sb, B, e, c) ==
    Round(IF sa = sb \/ c >= 0 THEN sa ELSE sb,
          IF sa = sb THEN BigAdd(A, B) ELSE IF c >= 0 THEN BigSub(A, B) ELSE BigSub(B, A),
          e, FALSE)

AddShifted(sa, A, b) == AddMan(sa, A, b.sgn, b.man, b.exp, BigCmp(A, b.man))

\* a + b for nonzero floats with a.exp >= b.exp: beyond Precision + 2 bits
\* apart b cannot change the rounded sum.
AddAligned(a, b) ==
    IF a.exp - b.exp > Precision + 2 THEN a
    ELSE AddShifted(a.sgn, ShiftL(a.man, a.exp - b.exp), b)

FAdd(a, b) ==
    IF ~IsFloat(a) THEN a
    ELSE IF ~IsFloat(b) THEN b
    ELSE IF a.sgn = 0 THEN b
    ELSE IF b.sgn = 0 THEN a
    ELSE AddAligned(IF a.exp >= b.exp THEN a ELSE b, IF a.exp >= b.exp THEN b ELSE a)

FSub(a, b) == FAdd(a, FNeg(b))

\* -1, 0 or 1 as a < b, a = b, a > b.
FCmp(a, b) ==
    IF a.sgn # b.sgn THEN (IF a.sgn > b.sgn THEN 1 ELSE -1)
    ELSE IF a.sgn = 0 THEN 0
    ELSE a.sgn * MagCmp(a, b)

FGt(a, b) == FCmp(a, b) > 0

FLe(a, b) == FCmp(a, b) <= 0

\* The float a decimal literal n / d (d a power of ten) denotes.
Dec(n, d) == FDiv(FromInt(n), FromInt(d))

\* ---------------------------------------------------------------------
\* Bounds of the explored inputs.
\* ---------------------------------------------------------------------
\* Number of chillers offered by the sidebar (the widget allows 1..10).
MaxChillers == 2
\* At most this many widgets differ from their defaults at any time.
MaxEdited == 3

\* ---------------------------------------------------------------------
\* Core calculations.  Where the source binds a local and goes on, the
\* operator for the statement hands the value to the operator for the rest,
\* so each local is computed once, as in the source.
\* ---------------------------------------------------------------------
METHOD_AUTO == "Auto (recommended)"

METHOD_IPLV == "Use IPLV only"

METHOD_4PT == "Use 4-point part-load (25/50/75/100)"


\* safe_positive with x >= 0 for x > 0.
safe_positive_or_zero(x) == x # None /\ FLe(Zero, x)

safe_positive(x) == x # None /\ FGt(x, Zero)


\* pick_energy_method with any(...) for all(...) in has_partload.
pick_energy_method_any(method_choice, eer_full, iplv, eer75, eer50, eer25) ==
    LET has_iplv     == safe_positive(iplv)
        has_partload == \E v \in {eer_full, eer75, eer50, eer25} : safe_positive(v)
        partload     == [used |-> "partload",
                         params |-> [eer100 |-> eer_full, eer75 |-> eer75,
                                     eer50 |-> eer50, eer25 |-> eer25]]
        by_iplv      == [used |-> "iplv", params |-> [iplv |-> iplv]]
        full         == [used |-> "full", params |-> [eer100 |-> eer_full]]
    IN  IF method_choice = METHOD_4PT
        THEN IF has_partload THEN partload
             ELSE IF has_iplv THEN by_iplv
             ELSE full
        ELSE IF method_choice = METHOD_IPLV
        THEN IF has_iplv THEN by_iplv ELSE full
        ELSE IF has_partload THEN partload
        ELSE IF has_iplv THEN by_iplv
        ELSE full

\* pick_energy_method without the "Use IPLV only" branch: that choice falls
\* through to the Auto order.
pick_energy_method_no_iplv_branch(method_choice, eer_full, iplv, eer75, eer50, eer25) ==
    LET has_iplv     == safe_positive(iplv)
        has_partload == \A v \in {eer_full, eer75, eer50, eer25} : safe_positive(v)
        partload     == [used |-> "partload",
                         params |-> [eer100 |-> eer_full, eer75 |-> eer75,
                                     eer50 |-> eer50, eer25 |-> eer25]]
        by_iplv      == [used |-> "iplv", params |-> [iplv |-> iplv]]
        full         == [used |-> "full", params |-> [eer100 |-> eer_full]]
    IN  IF has_partload THEN partload
        ELSE IF has_iplv THEN by_iplv
        ELSE full

pick_energy_method(method_choice, eer_full, iplv, eer75, eer50, eer25) ==
    LET has_iplv     == safe_positive(iplv)
        has_partload == \A v \in {eer_full, eer75, eer50, eer25} : safe_positive(v)
        partload     == [used |-> "partload",
                         params |-> [eer100 |-> eer_full, eer75 |-> eer75,
                                     eer50 |-> eer50, eer25 |-> eer25]]
        by_iplv      == [used |-> "iplv", params |-> [iplv |-> iplv]]
        full         == [used |-> "full", params |-> [eer100 |-> eer_full]]
    IN  IF method_choice = METHOD_4PT
        THEN IF has_partload THEN partload
             ELSE IF has_iplv THEN by_iplv
             ELSE full
        ELSE IF method_choice = METHOD_IPLV
        THEN IF has_iplv THEN by_iplv ELSE full
        ELSE IF has_partload THEN partload
        ELSE IF has_iplv THEN by_iplv
        ELSE full


\* annual_kwh_full_eer multiplying by the rating.
annual_kwh_full_eer_times(load_kw, hours, eer) == FMul(FMul(load_kw, eer), FromInt(hours))

\* hours is a Python int wherever these are called: float * int converts
\* the int first.
annual_kwh_full_eer(load_kw, hours, eer) == FMul(FDiv(load_kw, eer), FromInt(hours))

annual_kwh_iplv(load_kw, hours, iplv) == FMul(FDiv(load_kw, iplv), FromInt(hours))


\* weights with every bin at 0.25.
weights_uniform(b) == Dec(25, 100)

\* weights[b], the literals 0.01, 0.42, 0.45, 0.12.
weights(b) ==
    Dec(CASE b = "100" -> 1 [] b = "75" -> 42 [] b = "50" -> 45 [] b = "25" -> 12, 100)

\* weights["100"]*load_100 + weights["75"]*load_75 + weights["50"]*load_50
\* + weights["25"]*load_25 over the bin loads l, summed left to right.
weighted_average(l) ==
    FAdd(FAdd(FAdd(FMul(weights("100"), l.load_100), FMul(weights("75"), l.load_75)),
              FMul(weights("50"), l.load_50)),
         FMul(weights("25"), l.load_25))

\* kwh = 0.0 and the four kwh += (load_i / eer_i) * (hours * weights[i]).
partload_kwh(l, a) ==
    FAdd(FAdd(FAdd(FAdd(Zero,
        FMul(FDiv(l.load_100, a.eer100), FMul(FromInt(a.hours), weights("100")))),
        FMul(FDiv(l.load_75, a.eer75), FMul(FromInt(a.hours), weights("75")))),
        FMul(FDiv(l.load_50, a.eer50), FMul(FromInt(a.hours), weights("50")))),
        FMul(FDiv(l.load_25, a.eer25), FMul(FromInt(a.hours), weights("25"))))

\* The locals of annual_kwh_partload_4pt where it returns: l holds the scaled
\* bin loads, kwh is the value returned.
partload_return(avg_from_bins, scale, l, a) ==
    [avg_from_bins |-> avg_from_bins, scale |-> scale,
     load_100 |-> l.load_100, load_75 |-> l.load_75, load_50 |-> l.load_50,
     load_25 |-> l.load_25,
     kwh |-> partload_kwh(l, a)]


\* partload_scaled without the four load_i *= scale.
partload_scaled_skipped(l, avg_from_bins, scale, a) ==
    partload_return(avg_from_bins, scale, l, a)

\* load_100 *= scale ... load_25 *= scale, over the nominal bin loads l.
partload_scaled(l, avg_from_bins, scale, a) ==
    partload_return(avg_from_bins, scale,
        [load_100 |-> FMul(l.load_100, scale), load_75 |-> FMul(l.load_75, scale),
         load_50 |-> FMul(l.load_50, scale), load_25 |-> FMul(l.load_25, scale)], a)


\* partload_scale without the guard: always divides.
partload_scale_unguarded(l, avg_from_bins, a) ==
    partload_scaled(l, avg_from_bins, FDiv(a.load_kw, avg_from_bins), a)

\* partload_scale leaving scale at 1.0.
partload_scale_one(l, avg_from_bins, a) ==
    partload_scaled(l, avg_from_bins, FromInt(1), a)

\* scale = 1.0; if avg_from_bins > 0: scale = load_kw / avg_from_bins.
partload_scale(l, avg_from_bins, a) ==
    partload_scaled(l, avg_from_bins,
        IF FGt(avg_from_bins, Zero) THEN FDiv(a.load_kw, avg_from_bins) ELSE FromInt(1), a)

partload_bins(l, a) == partload_scale(l, weighted_average(l), a)

\* The body of annual_kwh_partload_4pt.  cap is total_capacity_kw, which the
\* function reads from the enclosing scope.
partload_locals(cap, load_kw, hours, eer100, eer75, eer50, eer25) ==
    partload_bins(
        [load_100 |-> FMul(cap, Dec(100, 100)), load_75 |-> FMul(cap, Dec(75, 100)),
         load_50 |-> FMul(cap, Dec(50, 100)), load_25 |-> FMul(cap, Dec(25, 100))],
        [load_kw |-> load_kw, hours |-> hours,
         eer100 |-> eer100, eer75 |-> eer75, eer50 |-> eer50, eer25 |-> eer25])

annual_kwh_partload_4pt(cap, load_kw, hours, eer100, eer75, eer50, eer25) ==
    partload_locals(cap, load_kw, hours, eer100, eer75, eer50, eer25).kwh

\* compute_option from annual_cost_gel on; a ZeroDivisionError raised by the
\* estimator leaves compute_option.
option_summary(g, capex_eur, kwh, method_label) ==
    IF ~IsFloat(kwh) THEN kwh
    ELSE [k |-> "dict",
          kwh |-> kwh,
          annual_cost_gel |-> FMul(kwh, g.gel_per_kwh),
          capex_gel |-> FMul(FMul(capex_eur, FromInt(g.chillers)), g.eur_to_gel),
          avg_elec_kw |-> IF g.operating_hours > 0
                          THEN FDiv(kwh, FromInt(g.operating_hours)) ELSE Zero,
          method |-> method_label]

\* compute_option's if / elif / else over the method picked.
option_energy(g, capex_eur, sel) ==
    IF sel.used = "partload"
    THEN option_summary(g, capex_eur,
             annual_kwh_partload_4pt(g.total_capacity_kw, g.avg_cooling_kw,
                 g.operating_hours, sel.params.eer100, sel.params.eer75,
                 sel.params.eer50, sel.params.eer25),
             "4-point part-load")
    ELSE IF sel.used = "iplv"
    THEN option_summary(g, capex_eur,
             annual_kwh_iplv(g.avg_cooling_kw, g.operating_hours, sel.params.iplv), "IPLV")
    ELSE option_summary(g, capex_eur,
             annual_kwh_full_eer(g.avg_cooling_kw, g.operating_hours, sel.params.eer100),
             "Full-load EER")

\* g holds the module-level names compute_option reads: chillers,
\* total_capacity_kw, avg_cooling_kw, operating_hours, gel_per_kwh, eur_to_gel.
compute_option(g, capex_eur, eer_full, iplv, eer75, eer50, eer25, method_choice) ==
    option_energy(g, capex_eur,
        pick_energy_method(method_choice, eer_full, iplv, eer75, eer50, eer25))


\* payback without the annual_savings_gel > 0 test.
payback_any_savings(annual_savings_gel, delta_capex_gel, operating_months) ==
    IF FGt(delta_capex_gel, Zero) /\ operating_months > 0
    THEN LET payback_years == FDiv(delta_capex_gel, annual_savings_gel)
         IN  [calendar  |-> FMul(payback_years, FromInt(12)),
              operating |-> FDiv(delta_capex_gel,
                                 FDiv(annual_savings_gel, FromInt(operating_months)))]
    ELSE [calendar |-> None, operating |-> None]

\* payback dividing by the annual savings, not the savings per operating month.
payback_per_year(annual_savings_gel, delta_capex_gel, operating_months) ==
    IF FGt(annual_savings_gel, Zero) /\ FGt(delta_capex_gel, Zero) /\ operating_months > 0
    THEN LET payback_years == FDiv(delta_capex_gel, annual_savings_gel)
         IN  [calendar  |-> FMul(payback_years, FromInt(12)),
              operating |-> FDiv(delta_capex_gel, annual_savings_gel)]
    ELSE [calendar |-> None, operating |-> None]

\* Payback calculations: payback_calendar_months and payback_operating_months.
payback(annual_savings_gel, delta_capex_gel, operating_months) ==
    IF FGt(annual_savings_gel, Zero) /\ FGt(delta_capex_gel, Zero) /\ operating_months > 0
    THEN LET payback_years == FDiv(delta_capex_gel, annual_savings_gel)
         IN  [calendar  |-> FMul(payback_years, FromInt(12)),
              operating |-> FDiv(delta_capex_gel,
                                 FDiv(annual_savings_gel, FromInt(operating_months)))]
    ELSE [calendar |-> None, operating |-> None]

\* The module-level names bound when the script stops: at its end (raised = "")
\* or where an exception left it.
namespace(g, o1, o2, savings, delta, pb, exc) ==
    [total_capacity_kw |-> g.total_capacity_kw, avg_cooling_kw |-> g.avg_cooling_kw,
     operating_hours |-> g.operating_hours, opt1 |-> o1, opt2 |-> o2,
     annual_savings_gel |-> savings, delta_capex_gel |-> delta,
     payback_calendar_months |-> pb.calendar, payback_operating_months |-> pb.operating,
     raised |-> exc]

script_payback(w, g, o1, o2, savings, delta) ==
    namespace(g, o1, o2, savings, delta, payback(savings, delta, w.operating_months), "")

script_deltas(w, g, o1, o2) ==
    IF o2.k # "dict"
    THEN namespace(g, o1, None, None, None, [calendar |-> None, operating |-> None], o2.k)
    ELSE script_payback(w, g, o1, o2,
             FSub(o2.annual_cost_gel, o1.annual_cost_gel),
             FSub(o1.capex_gel, o2.capex_gel))

script_opt2(w, g, o1) ==
    IF o1.k # "dict"
    THEN namespace(g, None, None, None, None, [calendar |-> None, operating |-> None], o1.k)
    ELSE script_deltas(w, g, o1,
             compute_option(g, w.capex_2_eur, w.eer_2_full, w.iplv_2,
                            w.eer_2_75, w.eer_2_50, w.eer_2_25, w.method))

script_opt1(w, g) ==
    script_opt2(w, g,
        compute_option(g, w.capex_1_eur, w.eer_1_full, w.iplv_1,
                       w.eer_1_75, w.eer_1_50, w.eer_1_25, w.method))

script_globals(w, total) ==
    script_opt1(w, [chillers |-> w.chillers, total_capacity_kw |-> total,
                    avg_cooling_kw |-> FMul(total, w.load_factor),
                    operating_hours |-> w.operating_months * w.days_per_month * 24,
                    gel_per_kwh |-> w.gel_per_kwh, eur_to_gel |-> w.eur_to_gel])

\* One run of the script, top to bottom, over the widget values w.
script(w) == script_globals(w, FMul(FromInt(w.chillers), w.capacity_per_chiller_kw))

\* ---------------------------------------------------------------------
\* Sidebar inputs: each widget's value on the first run, and the values the
\* user is offered here.
\* ---------------------------------------------------------------------
Defaults ==
    [chillers |-> 1, capacity_per_chiller_kw |-> FromInt(1000), load_factor |-> Dec(35, 100),
     operating_months |-> 5, days_per_month |-> 30,
     gel_per_kwh |-> Dec(30, 100), eur_to_gel |-> Dec(316, 100),
     method |-> METHOD_AUTO,
     capex_1_eur |-> FromInt(137000), eer_1_full |-> Dec(33, 10), iplv_1 |-> Zero,
     eer_1_75 |-> Zero, eer_1_50 |-> Zero, eer_1_25 |-> Zero,
     capex_2_eur |-> FromInt(115000), eer_2_full |-> Dec(27, 10), iplv_2 |-> Zero,
     eer_2_75 |-> Zero, eer_2_50 |-> Zero, eer_2_25 |-> Zero]

WidgetChoices ==
    [chillers |-> 1..MaxChillers,
     capacity_per_chiller_kw |-> {FromInt(1000), FromInt(1050)},
     load_factor |-> {Dec(35, 100), Dec(100, 100)},
     operating_months |-> {5, 7},
     days_per_month |-> {30, 31},
     gel_per_kwh |-> {Dec(30, 100), Dec(25, 100)},
     eur_to_gel |-> {Dec(316, 100), Dec(300, 100)},
     method |-> {METHOD_AUTO, METHOD_IPLV, METHOD_4PT},
     capex_1_eur |-> {FromInt(137000), FromInt(115000)},
     eer_1_full |-> {Dec(33, 10), Dec(25, 10)},
     iplv_1 |-> {Zero, Dec(41, 10)},
     eer_1_75 |-> {Zero, Dec(35, 10)},
     eer_1_50 |-> {Zero, Dec(38, 10)},
     eer_1_25 |-> {Zero, Dec(30, 10)},
     capex_2_eur |-> {FromInt(115000), FromInt(140000)},
     eer_2_full |-> {Dec(27, 10), Dec(33, 10)},
     iplv_2 |-> {Zero, Dec(34, 10)},
     eer_2_75 |-> {Zero, Dec(31, 10)},
     eer_2_50 |-> {Zero, Dec(34, 10)},
     eer_2_25 |-> {Zero, Dec(29, 10)}]

Edited(w) == Cardinality({n \in DOMAIN w : w[n] # Defaults[n]})

\* ---------------------------------------------------------------------
\* State.  widgets: the sidebar's values.  The names after it are the
\* script's module-level variables as its last run over widgets left them
\* (None: not bound); raised is the exception that ended that run, "" when it
\* ran to its end.
\* call, ret: a direct call of one of the core functions, and what it
\* returned (None until it has).
\* ---------------------------------------------------------------------
VARIABLES widgets, total_capacity_kw, avg_cooling_kw, operating_hours,
          opt1, opt2, annual_savings_gel, delta_capex_gel,
          payback_calendar_months, payback_operating_months, raised,
          call, ret

outputs == <<total_capacity_kw, avg_cooling_kw, operating_hours, opt1, opt2,
             annual_savings_gel, delta_capex_gel, payback_calendar_months,
             payback_operating_months, raised>>

vars == <<widgets, outputs, call, ret>>

NoCall == [fn |-> "none"]

\* The app is open: the script has run once over the default widget values.
Init ==
    /\ widgets = Defaults
    /\ \E r \in {script(Defaults)} :
           /\ total_capacity_kw = r.total_capacity_kw
           /\ avg_cooling_kw = r.avg_cooling_kw
           /\ operating_hours = r.operating_hours
           /\ opt1 = r.opt1
           /\ opt2 = r.opt2
           /\ annual_savings_gel = r.annual_savings_gel
           /\ delta_capex_gel = r.delta_capex_gel
           /\ payback_calendar_months = r.payback_calendar_months
           /\ payback_operating_months = r.payback_operating_months
           /\ raised = r.raised
    /\ call = NoCall
    /\ ret = None

\* The user changes one widget; Streamlit reruns the script top to bottom over
\* the new values, in a fresh namespace.
OnWidgetChange(name, v) ==
    /\ v # widgets[name]
    /\ Edited([widgets EXCEPT ![name] = v]) <= MaxEdited
    /\ widgets' = [widgets EXCEPT ![name] = v]
    /\ \E r \in {script([widgets EXCEPT ![name] = v])} :
           /\ total_capacity_kw' = r.total_capacity_kw
           /\ avg_cooling_kw' = r.avg_cooling_kw
           /\ operating_hours' = r.operating_hours
           /\ opt1' = r.opt1
           /\ opt2' = r.opt2
           /\ annual_savings_gel' = r.annual_savings_gel
           /\ delta_capex_gel' = r.delta_capex_gel
           /\ payback_calendar_months' = r.payback_calendar_months
           /\ payback_operating_months' = r.payback_operating_months
           /\ raised' = r.raised
    /\ UNCHANGED <<call, ret>>

Next == \E name \in DOMAIN widgets : \E v \in WidgetChoices[name] : OnWidgetChange(name, v)

Spec == Init /\ [][Next]_vars

\* ---------------------------------------------------------------------
\* Direct calls of the core functions, as a unit test makes them: the script
\* has not run, call holds the function and its arguments, ret what it returned.
\* ---------------------------------------------------------------------
NotRun ==
    /\ total_capacity_kw = None /\ avg_cooling_kw = None /\ operating_hours = None
    /\ opt1 = None /\ opt2 = None
    /\ annual_savings_gel = None /\ delta_capex_gel = None
    /\ payback_calendar_months = None /\ payback_operating_months = None
    /\ raised = ""

\* A rating as pick_energy_method can be handed it: absent, zero, negative,
\* positive.
Ratings == {None, Zero, FromInt(-1), Dec(33, 10)}

PickCalls ==
    {[fn |-> "pick_energy_method", method_choice |-> m, eer_full |-> e100, iplv |-> i,
      eer75 |-> e75, eer50 |-> e50, eer25 |-> e25] :
        m \in {METHOD_AUTO, METHOD_IPLV, METHOD_4PT},
        e100 \in Ratings, i \in Ratings, e75 \in Ratings, e50 \in Ratings, e25 \in Ratings}

InitPick ==
    /\ widgets = Defaults
    /\ NotRun
    /\ call \in PickCalls
    /\ ret = None

PickReturns ==
    /\ call.fn = "pick_energy_method"
    /\ ret = None
    /\ ret' = pick_energy_method(call.method_choice, call.eer_full, call.iplv,
                                 call.eer75, call.eer50, call.eer25)
    /\ UNCHANGED <<widgets, outputs, call>>

NextPick == PickReturns

SpecPick == InitPick /\ [][NextPick]_vars

\* total_capacity_kw as the script can leave it, and 0.
Capacities ==
    {Zero} \cup {FMul(FromInt(n), c) : n \in 1..MaxChillers, c \in {FromInt(1000), FromInt(1050)}}

Loads == {FromInt(350), Dec(3675, 10), FromInt(1000)}

Hours == {5 * d * 24 : d \in {30, 31}}

\* <<eer100, eer75, eer50, eer25>>: equal ratings, distinct ratings, and one
\* with a zero among them.
RatingProfiles ==
    {<<Dec(33, 10), Dec(33, 10), Dec(33, 10), Dec(33, 10)>>,
     <<Dec(27, 10), Dec(27, 10), Dec(27, 10), Dec(27, 10)>>,
     <<Dec(33, 10), Dec(35, 10), Dec(38, 10), Dec(30, 10)>>,
     <<Dec(27, 10), Dec(31, 10), Dec(34, 10), Dec(29, 10)>>,
     <<Dec(33, 10), Zero, Dec(38, 10), Dec(30, 10)>>}

PartloadCalls ==
    {[fn |-> "annual_kwh_partload_4pt", total_capacity_kw |-> c, load_kw |-> l, hours |-> h,
      eer100 |-> p[1], eer75 |-> p[2], eer50 |-> p[3], eer25 |-> p[4]] :
        c \in Capacities, l \in Loads, h \in Hours, p \in RatingProfiles}

InitPartload ==
    /\ widgets = Defaults
    /\ NotRun
    /\ call \in PartloadCalls
    /\ ret = None

\* ret: the function's locals where it returned, or the exception it raised.
PartloadReturns ==
    /\ call.fn = "annual_kwh_partload_4pt"
    /\ ret = None
    /\ \E r \in {partload_locals(call.total_capacity_kw, call.load_kw, call.hours,
                                 call.eer100, call.eer75, call.eer50, call.eer25)} :
           ret' = IF IsFloat(r.kwh) THEN r ELSE r.kwh
    /\ UNCHANGED <<widgets, outputs, call>>

NextPartload == PartloadReturns

SpecPartload == InitPartload /\ [][NextPartload]_vars

\* ---------------------------------------------------------------------
\* Properties.
\* ---------------------------------------------------------------------
\* x is a float and strictly positive.
Positive(x) == x # None /\ x.sgn = 1

\* math.isclose(a, b): |a - b| <= 1e-09 * max(|a|, |b|), in float arithmetic.
isclose(a, b) ==
    FLe(FAbs(FSub(a, b)),
        FMul(Dec(1, 1000000000), IF FGt(FAbs(a), FAbs(b)) THEN FAbs(a) ELSE FAbs(b)))

Returned == ret # None

AllFourPositive ==
    Positive(call.eer_full) /\ Positive(call.eer75) /\ Positive(call.eer50)
        /\ Positive(call.eer25)

\* C1: under "Auto (recommended)" and "Use 4-point part-load (25/50/75/100)",
\* pick_energy_method returns "partload" exactly when eer_full, eer75, eer50 and
\* eer25 are all strictly positive; otherwise it returns "iplv" if iplv > 0 and
\* "full" if not.
C1_PartloadIffAllFour ==
    (Returned /\ call.method_choice \in {METHOD_AUTO, METHOD_4PT}) =>
        /\ (ret.used = "partload") <=> AllFourPositive
        /\ ~AllFourPositive =>
               ret.used = (IF Positive(call.iplv) THEN "iplv" ELSE "full")

C1_Witness ==
    /\ Returned /\ call.method_choice = METHOD_4PT
    /\ Positive(call.eer_full) /\ Positive(call.eer75) /\ call.eer50 = Zero
    /\ Positive(call.iplv) /\ ret.used = "iplv"

\* C2: under "Use IPLV only", pick_energy_method returns "iplv" exactly when
\* iplv > 0 and "full" otherwise, whatever the part-load ratings are.
C2_IplvOnly ==
    (Returned /\ call.method_choice = METHOD_IPLV) =>
        ret.used = (IF Positive(call.iplv) THEN "iplv" ELSE "full")

C2_Witness ==
    /\ Returned /\ call.method_choice = METHOD_IPLV
    /\ AllFourPositive /\ ~Positive(call.iplv) /\ ret.used = "full"

BothOptions == opt1 # None /\ opt2 # None

\* C3: the two payback figures are both None or both numbers, and they are
\* None whenever option 2's annual cost minus option 1's is <= 0 or option 1's
\* capital minus option 2's is <= 0.
C3_NoPaybackWithoutGain ==
    /\ (payback_calendar_months = None) <=> (payback_operating_months = None)
    /\ (/\ BothOptions
        /\ \/ FLe(FSub(opt2.annual_cost_gel, opt1.annual_cost_gel), Zero)
           \/ FLe(FSub(opt1.capex_gel, opt2.capex_gel), Zero))
           => payback_calendar_months = None /\ payback_operating_months = None

C3_Witness ==
    /\ BothOptions
    /\ FSub(opt2.annual_cost_gel, opt1.annual_cost_gel).sgn = -1
    /\ Positive(FSub(opt1.capex_gel, opt2.capex_gel))
    /\ payback_calendar_months = None

\* payback_calendar_months * operating_months / 12, as Python evaluates it.
CalendarShare ==
    FDiv(FMul(payback_calendar_months, FromInt(widgets.operating_months)), FromInt(12))

PaybackDefined == payback_calendar_months # None /\ payback_operating_months # None

\* C4 (as amended): whenever both payback figures are defined,
\* payback_operating_months equals payback_calendar_months * operating_months / 12
\* to within a relative difference of 1e-9.
C4_OperatingIsCalendarShare ==
    PaybackDefined => isclose(payback_operating_months, CalendarShare)

\* C4 as written: the two are equal.
C4_Exact == PaybackDefined => payback_operating_months = CalendarShare

C4_Witness == PaybackDefined /\ widgets.operating_months = 7

\* 0.01*load_100 + 0.42*load_75 + 0.45*load_50 + 0.12*load_25.
BinAverage(l) ==
    FAdd(FAdd(FAdd(FMul(Dec(1, 100), l.load_100), FMul(Dec(42, 100), l.load_75)),
              FMul(Dec(45, 100), l.load_50)),
         FMul(Dec(12, 100), l.load_25))

RanToReturn == Returned /\ ret # ZeroDivisionError

ScaledCase ==
    RanToReturn /\ Positive(call.total_capacity_kw) /\ FLe(call.load_kw, call.total_capacity_kw)

\* C5 (as amended): for a positive capacity and load_kw <= capacity, the
\* weighted average of the scaled bin loads equals load_kw to within a relative
\* difference of 1e-9.
C5_ScaledAverageIsLoad == ScaledCase => isclose(BinAverage(ret), call.load_kw)

\* C5 as written: the weighted average equals load_kw.
C5_Exact == ScaledCase => BinAverage(ret) = call.load_kw

C5_Witness ==
    ScaledCase /\ call.load_kw = Dec(3675, 10) /\ ret.scale # FromInt(1)

\* The ratings the estimator behind a summary's method label divides by.
Divisors(method_label, eer_full, iplv, eer75, eer50, eer25) ==
    IF method_label = "4-point part-load" THEN {eer_full, eer75, eer50, eer25}
    ELSE IF method_label = "IPLV" THEN {iplv}
    ELSE {eer_full}

\* C6: over the values the form accepts, the script raises nothing, and every
\* rating the estimator selected for an option divides by is strictly positive.
C6_NoZeroDivisor ==
    /\ raised = ""
    /\ BothOptions
    /\ \A r \in Divisors(opt1.method, widgets.eer_1_full, widgets.iplv_1,
                         widgets.eer_1_75, widgets.eer_1_50, widgets.eer_1_25) : Positive(r)
    /\ \A r \in Divisors(opt2.method, widgets.eer_2_full, widgets.iplv_2,
                         widgets.eer_2_75, widgets.eer_2_50, widgets.eer_2_25) : Positive(r)

C6_Witness ==
    /\ widgets.method = METHOD_4PT
    /\ Positive(widgets.eer_1_75) /\ Positive(widgets.eer_1_50) /\ widgets.eer_1_25 = Zero
    /\ raised = "" /\ BothOptions /\ opt1.method = "Full-load EER"

\* (units * capacity per unit * load factor / eer) * (months * days * 24).
FullLoadKwh(eer) ==
    FMul(FDiv(FMul(FMul(FromInt(widgets.chillers), widgets.capacity_per_chiller_kw),
                   widgets.load_factor), eer),
         FromInt(widgets.operating_months * widgets.days_per_month * 24))

ExampleInputs ==
    /\ widgets.chillers = 1 /\ widgets.capacity_per_chiller_kw = FromInt(1000)
    /\ widgets.load_factor = Dec(35, 100)
    /\ widgets.operating_months = 5 /\ widgets.days_per_month = 30
    /\ widgets.eer_1_full = Dec(33, 10)

\* C7: an option whose method is full-load has kwh = (average cooling load /
\* full-load EER) * operating hours, with average cooling load = units * capacity
\* per unit * load factor and operating hours = months * days * 24; for 1 unit of
\* 1000 kW, load factor 0.35, 5 months of 30 days and EER 3.3 that is within
\* 0.01 of 381818.18.
C7_FullLoadEnergy ==
    /\ (opt1 # None /\ opt1.method = "Full-load EER") =>
           opt1.kwh = FullLoadKwh(widgets.eer_1_full)
    /\ (opt2 # None /\ opt2.method = "Full-load EER") =>
           opt2.kwh = FullLoadKwh(widgets.eer_2_full)
    /\ (opt1 # None /\ opt1.method = "Full-load EER" /\ ExampleInputs) =>
           FLe(FAbs(FSub(opt1.kwh, Dec(38181818, 100))), Dec(1, 100))

C7_Witness ==
    /\ ExampleInputs /\ widgets.method = METHOD_IPLV /\ Positive(widgets.eer_1_75)
    /\ opt1 # None /\ opt1.method = "Full-load EER"

PositiveRatings ==
    Positive(call.eer100) /\ Positive(call.eer75) /\ Positive(call.eer50)
        /\ Positive(call.eer25)

\* C8: with installed capacity 0 (so the weighted average of the nominal bin
\* loads is 0) and positive ratings, annual_kwh_partload_4pt raises nothing,
\* leaves scale at 1 and returns 0 kWh.
C8_ZeroCapacity ==
    (Returned /\ call.total_capacity_kw = Zero /\ PositiveRatings) =>
        /\ ret # ZeroDivisionError
        /\ ret.avg_from_bins = Zero
        /\ ret.scale = FromInt(1)
        /\ ret.kwh = Zero

C8_Witness ==
    /\ RanToReturn /\ call.total_capacity_kw = Zero /\ PositiveRatings
    /\ call.load_kw = FromInt(1000) /\ ret.kwh = Zero

EqualRatingsCase ==
    /\ RanToReturn /\ Positive(call.total_capacity_kw) /\ Positive(call.load_kw)
    /\ call.hours > 0 /\ Positive(call.eer100)
    /\ call.eer75 = call.eer100 /\ call.eer50 = call.eer100 /\ call.eer25 = call.eer100

\* (load_kw / e) * hours.
FullLoadOf(c) == FMul(FDiv(c.load_kw, c.eer100), FromInt(c.hours))

\* C9 (as amended): for positive capacity, load and hours and four ratings all
\* equal to e > 0, annual_kwh_partload_4pt returns (load_kw / e) * hours to
\* within a relative difference of 1e-9.
C9_EqualRatingsIsFullLoad == EqualRatingsCase => isclose(ret.kwh, FullLoadOf(call))

\* C9 as written: the two results are equal.
C9_Exact == EqualRatingsCase => ret.kwh = FullLoadOf(call)

C9_Witness == EqualRatingsCase /\ call.eer100 = Dec(27, 10) /\ call.hours = 3720

\* The function's result for the same arguments at capacity c.
AtCapacity(c) ==
    annual_kwh_partload_4pt(c, call.load_kw, call.hours,
                            call.eer100, call.eer75, call.eer50, call.eer25)

PositiveCapacityCase == RanToReturn /\ Positive(call.total_capacity_kw)

\* C10 (as amended): for fixed load_kw, hours and ratings, the results of
\* annual_kwh_partload_4pt at any two strictly positive capacities agree to
\* within a relative difference of 1e-9.
C10_CapacityIndependent ==
    PositiveCapacityCase =>
        \A c \in Capacities \ {Zero} : isclose(ret.kwh, AtCapacity(c))

\* C10 as written: the results are the same.
C10_Exact ==
    PositiveCapacityCase => \A c \in Capacities \ {Zero} : ret.kwh = AtCapacity(c)

C10_Witness ==
    /\ PositiveCapacityCase /\ call.eer75 # call.eer100
    /\ \E c \in Capacities \ {Zero} : c # call.total_capacity_kw /\ IsFloat(AtCapacity(c))
====
